---- MODULE Spec2Model ----
(***************************************************************************)
(* Model of mala/descriptors/atomic_density.py (class AtomicDensity) and   *)
(* of mala/network/network.py (class Network and its subclasses); the      *)
(* network part has its own heading further down.                          *)
(*                                                                         *)
(* One calculator instance and its shared parameters object are used by    *)
(* the client threads of Threads.  Each thread calls _calculate over and   *)
(* over; a call is a sequence of steps (one action per block of            *)
(* statements), so that calls of different threads can interleave.         *)
(*                                                                         *)
(* Numbers.  Lengths are exact rationals <<n, d>> with d >= 0; d = 0       *)
(* stands for the values numpy gives for a division by zero: <<1, 0>> is   *)
(* inf, <<-1, 0>> is -inf and <<0, 0>> is nan.  The checker's integers     *)
(* are 32 bits wide, so reference_grid_spacing_aluminium is rounded to     *)
(* three decimals.  exp() is kept symbolic: a density is the sequence of   *)
(* the kernel terms added to it, each term with its exponent argument.     *)
(*                                                                         *)
(* Arrays of the accelerated path are numpy views: a flat data buffer      *)
(* with shape, strides and offset; reshape, transpose and slicing change   *)
(* the view the way numpy does.                                            *)
(*                                                                         *)
(* Left out: use_fp64 (passed through to the extraction), the choice of    *)
(* the run file (use_z_splitting, lines 162-169), the file written by      *)
(* ase.io.write, self.grid_dimensions (written at lines 144 and 190, read  *)
(* only at lines 146-148 right after being set to [nx, ny, nz]) and the    *)
(* ASE neighbour list of lines 270-281, whose result no later statement    *)
(* uses.                                                                   *)
(***************************************************************************)
EXTENDS Integers, Sequences, FiniteSets, TLC

VARIABLES parameters, fingerprint_length, call, sched, user_sigma,
          unit_call, network_params, net

vars == <<parameters, fingerprint_length, call, sched, user_sigma,
          unit_call, network_params, net>>

(***************************************************************************)
(* Bounds of the model.                                                    *)
(***************************************************************************)
\* grid dimensions are drawn from 0..MaxGrid
MaxGrid == 3
\* number of engine processes a distributed run may be split over
MaxProcs == 2

Threads == {1, 2}

\* Python's None (for values that are otherwise tuples)
None == << >>

(***************************************************************************)
(* Rational arithmetic with numpy's inf / nan.                             *)
(***************************************************************************)
Abs(x) == IF x < 0 THEN -x ELSE x

Sgn(x) == IF x < 0 THEN -1 ELSE IF x = 0 THEN 0 ELSE 1

RECURSIVE Gcd(_, _)
Gcd(a, b) == IF b = 0 THEN a ELSE Gcd(b, a % b)

Norm(n, d) ==
    IF d = 0 THEN <<Sgn(n), 0>>
    ELSE LET g == Gcd(Abs(n), Abs(d))
             s == Sgn(d)
         IN  <<(s * n) \div g, (s * d) \div g>>

Q(n) == <<n, 1>>

IsNaN(a) == a = <<0, 0>>

QAdd(a, b) == Norm(a[1] * b[2] + b[1] * a[2], a[2] * b[2])

QNeg(a) == <<-a[1], a[2]>>

QSub(a, b) == QAdd(a, QNeg(b))

QMul(a, b) == Norm(a[1] * b[1], a[2] * b[2])

QDiv(a, b) == Norm(a[1] * b[2], a[2] * b[1])

\* a < b as IEEE floats compare: false when either side is nan
QLess(a, b) ==
    /\ ~IsNaN(a)
    /\ ~IsNaN(b)
    /\ IF a[2] = 0 /\ b[2] = 0 THEN a[1] < b[1]
       ELSE a[1] * b[2] < b[1] * a[2]

\* np.max of a sequence of numbers: nan if any entry is nan
RECURSIVE NpMaxFrom(_, _)
NpMaxFrom(s, i) ==
    IF i = Len(s) THEN s[i]
    ELSE LET m == NpMaxFrom(s, i + 1)
         IN  IF IsNaN(s[i]) \/ IsNaN(m) THEN <<0, 0>>
             ELSE IF QLess(m, s[i]) THEN s[i] ELSE m

(***************************************************************************)
(* Module constants, lines 22-27.                                          *)
(***************************************************************************)
optimal_sigma_aluminium == <<1, 5>>

reference_grid_spacing_aluminium == <<81, 1000>>

(***************************************************************************)
(* numpy views.                                                            *)
(***************************************************************************)
RECURSIVE Prod(_, _)
Prod(shape, i) == IF i > Len(shape) THEN 1 ELSE shape[i] * Prod(shape, i + 1)

Size(shape) == Prod(shape, 1)

\* strides (in elements) of a C-contiguous array of this shape
CStrides(shape) == [i \in 1..Len(shape) |-> Prod(shape, i + 1)]

\* a fresh C-contiguous array over the flat buffer data
NdArray(shape, data) ==
    [shape |-> shape, strides |-> CStrides(shape), offset |-> 0, data |-> data]

RECURSIVE Dot(_, _, _)
Dot(idx, strides, i) ==
    IF i > Len(idx) THEN 0 ELSE idx[i] * strides[i] + Dot(idx, strides, i + 1)

\* a[idx], idx a tuple of 0-based indices
Item(a, idx) == a.data[a.offset + Dot(idx, a.strides, 1) + 1]

\* the 0-based index tuples of a shape of rank 2 and of rank 4
Indices2(shape) ==
    {<<r, c>> : r \in 0..(shape[1] - 1), c \in 0..(shape[2] - 1)}

Indices4(shape) ==
    {<<x, y, z, c>> : x \in 0..(shape[1] - 1), y \in 0..(shape[2] - 1),
                      z \in 0..(shape[3] - 1), c \in 0..(shape[4] - 1)}

\* a.reshape(shape) of a C-contiguous a: the same buffer, C strides of the
\* new shape.  numpy raises ValueError when the sizes differ.
CanReshape(a, shape) == Size(a.shape) = Size(shape)

reshape(a, shape) == [a EXCEPT !.shape = shape, !.strides = CStrides(shape)]

\* a.transpose(axes), axes 0-based as in the source
transpose(a, axes) ==
    [a EXCEPT !.shape   = [i \in 1..Len(axes) |-> a.shape[axes[i] + 1]],
              !.strides = [i \in 1..Len(axes) |-> a.strides[axes[i] + 1]]]

\* a[:, :, :, start:]
SliceLast(a, start) ==
    LET n == Len(a.shape)
        s == IF start > a.shape[n] THEN a.shape[n] ELSE start
    IN  [a EXCEPT !.shape[n] = a.shape[n] - s,
                  !.offset   = a.offset + s * a.strides[n]]

(***************************************************************************)
(* Inputs: the structures (ase.Atoms: cell rows and atom positions), the   *)
(* grids and the configurations the calls are run with.                    *)
(***************************************************************************)
OrthorhombicAtoms ==
    [cell      |-> <<<<6, 0, 0>>, <<0, 6, 0>>, <<0, 0, 6>>>>,
     positions |-> <<<<0, 0, 0>>>>]

TriclinicAtoms ==
    [cell      |-> <<<<6, 0, 0>>, <<1, 6, 0>>, <<2, 3, 6>>>>,
     positions |-> <<<<3, 0, 0>>, <<-1, -1, 0>>>>]

AtomsInputs == {OrthorhombicAtoms, TriclinicAtoms}

GridInputs == {<<nx, ny, nz>> : nx \in 0..MaxGrid, ny \in 0..MaxGrid, nz \in 0..MaxGrid}

\* calls that overlap in time: one structure on two grids whose voxels
\* differ and on an empty grid, without return_directly
OverlapAtomsInputs == {OrthorhombicAtoms}

OverlapGridInputs == {<<1, 1, 1>>, <<2, 2, 2>>, <<0, 1, 1>>}

CallInputs(s) ==
    IF s = "sequential"
    THEN [atoms : AtomsInputs, grid_dimensions : GridInputs,
          return_directly : BOOLEAN]
    ELSE [atoms : OverlapAtomsInputs, grid_dimensions : OverlapGridInputs,
          return_directly : {FALSE}]

\* a sigma the user may have set on the parameters before the first call
UserSigmas == {None, <<1, 2>>}

Cutoffs == {Q(2)}

\* ase.Cell.orthorhombic: no off-diagonal entry
orthorhombic(cell) == \A r \in 1..3 : \A c \in 1..3 : r # c => cell[r][c] = 0

\* len(atoms)
NAtoms(atoms) == Len(atoms.positions)

(***************************************************************************)
(* get_optimal_sigma, lines 103-119, and the voxel, lines 145-148 and      *)
(* 225-228.                                                                *)
(***************************************************************************)
Voxel(cell, grid_dimensions) ==
    [r \in 1..3 |-> [c \in 1..3 |-> Norm(cell[r][c], grid_dimensions[r])]]

Flat(voxel) == [i \in 1..9 |-> voxel[((i - 1) \div 3) + 1][((i - 1) % 3) + 1]]

get_optimal_sigma(voxel) ==
    QMul(QDiv(NpMaxFrom(Flat(voxel), 1), reference_grid_spacing_aluminium),
         optimal_sigma_aluminium)

\* mutant: sigma is derived anew by every call
SigmaIsUnset_always(sigma) == TRUE

\* lines 143 and 236: "if self.parameters.atomic_density_sigma is None"
SigmaIsUnset(sigma) == sigma = None

(***************************************************************************)
(* The external engine: what lmp.file and extract_compute_np hand back.    *)
(***************************************************************************)
\* the native layout has 7 columns per grid point (line 212)
NativeColumns == 7

\* local rows of this process: the whole grid, or its share of it in a
\* distributed run over `share` processes
EngineRows(grid_dimensions, mpi, share) ==
    LET total == grid_dimensions[1] * grid_dimensions[2] * grid_dimensions[3]
    IN  IF mpi THEN total \div share ELSE total

\* the marker stored at native flat index f (0-based)
Marker(f) == f

\* the payload: a C-contiguous (nrows, ncols) array of markers
EnginePayload(nrows, ncols) ==
    NdArray(<<nrows, ncols>>, [f \in 1..(nrows * ncols) |-> Marker(f - 1)])

(***************************************************************************)
(* Post-processing of the accelerated path, lines 190-222.                 *)
(***************************************************************************)
\* mutant: reshaped to (nx, ny, nz, 7) directly, without the transposition
Reorder_untransposed(a, grid_dimensions) ==
    reshape(a, <<grid_dimensions[1], grid_dimensions[2],
                 grid_dimensions[3], NativeColumns>>)

\* lines 208-214: reshape to (nz, ny, nx, 7), then transpose [2, 1, 0, 3]
Reorder(a, grid_dimensions) ==
    transpose(reshape(a, <<grid_dimensions[3], grid_dimensions[2],
                           grid_dimensions[1], NativeColumns>>),
              <<2, 1, 0, 3>>)

\* mutant: the coordinates are returned whatever the flag says
ChannelStart_xyz(descriptors_contain_xyz) == 3

\* lines 215-222: first channel returned
ChannelStart(descriptors_contain_xyz) == IF descriptors_contain_xyz THEN 3 ELSE 6

\* lines 216 and 220: the feature size recorded in full mode
FullModeFeatureSize(descriptors_contain_xyz) == IF descriptors_contain_xyz THEN 4 ELSE 1

\* line 195: the feature size recorded in distributed mode
MpiFeatureSize(descriptors_contain_xyz) == 4

\* mutant: the raw return reorders the buffer as the full mode does
ReturnDirectly_reordered(a, grid_dimensions) == Reorder(a, grid_dimensions)

\* lines 193 and 203: what is returned with return_directly
ReturnDirectly(a, grid_dimensions) == a

NoReturn == [kind |-> "none"]

ArrayReturn(a) == [kind |-> "array", array |-> a]

PairReturn(a, n) == [kind |-> "pair", array |-> a, count |-> n]

(***************************************************************************)
(* State of the other two parts of the program: the last call of a unit    *)
(* function (unit_call), the network section of the shared parameters      *)
(* object (network_params) and the network object under construction or in *)
(* use (net).  The descriptor calculation touches none of them.            *)
(***************************************************************************)
others == <<unit_call, network_params, net>>

\* no unit function has been called
IdleUnitCall == [fn |-> "none"]

\* the defaults of the network parameters
DefaultNetworkParams ==
    [nn_type |-> "feed-forward", loss_function_type |-> "mse",
     layer_sizes |-> <<4, 2>>, layer_activations |-> <<"Sigmoid">>,
     num_heads |-> 1, bidirection |-> FALSE, no_hidden_state |-> FALSE,
     num_hidden_layers |-> 1, mini_batch_size |-> 2]

\* no network object exists
IdleNet == [pc |-> "idle"]

OthersIdle ==
    /\ unit_call = IdleUnitCall
    /\ network_params = DefaultNetworkParams
    /\ net = IdleNet

(***************************************************************************)
(* State.  call[p] holds the locals of thread p's current call.            *)
(***************************************************************************)
IdleCall ==
    [pc |-> "idle", atoms |-> None, grid_dimensions |-> None,
     return_directly |-> FALSE, voxel |-> None, wrote_sigma |-> FALSE,
     lammps_dict |-> None, lmp |-> "none",
     nrows_ggrid |-> 0, ncols_ggrid |-> 0, gaussian_descriptors_np |-> None,
     cutoff_squared |-> None, prefactor |-> None, sigma_read |-> None,
     argumentfactor |-> None, ijk |-> None,
     ret |-> NoReturn, exc |-> "none"]

\* fingerprint_length = 0: no calculation has recorded a feature size yet
\* (the attribute comes from the base class Descriptor)
InitWith(s) ==
    /\ sched = s
    /\ \E lammps \in BOOLEAN, mpi \in BOOLEAN, xyz \in BOOLEAN,
          sigma \in UserSigmas, cutoff \in Cutoffs :
          /\ parameters = [lammps |-> lammps, mpi |-> mpi,
                           descriptors_contain_xyz |-> xyz,
                           atomic_density_sigma |-> sigma,
                           atomic_density_cutoff |-> cutoff]
          /\ user_sigma = sigma
    /\ fingerprint_length = 0
    /\ call = [p \in Threads |-> IdleCall]
    /\ OthersIdle

\* calls never overlap: one client thread
Init == InitWith("sequential")

\* calls of the two threads overlap
InitOverlap == InitWith("overlap")

\* the call of thread p has left _calculate, by return or by exception
Finished(p) == call[p].pc \in {"returned", "raised"}

(***************************************************************************)
(* _calculate, lines 121-127, with the entry of the chosen path            *)
(* (lines 131-140).                                                        *)
(***************************************************************************)
Calculate(p) ==
    /\ call[p].pc = "idle"
    /\ sched = "sequential" => p = 1
    /\ \E in \in CallInputs(sched) :
          call' = [call EXCEPT ![p] =
                     [IdleCall EXCEPT
                        !.pc = IF parameters.lammps THEN "lmp_check_sigma"
                               ELSE "py_alloc",
                        !.atoms = in.atoms,
                        !.grid_dimensions = in.grid_dimensions,
                        !.return_directly = in.return_directly]]
    /\ UNCHANGED <<parameters, fingerprint_length, sched, user_sigma, others>>

(***************************************************************************)
(* __calculate_lammps, lines 129-222.                                      *)
(***************************************************************************)
\* line 143
LmpCheckSigma(p) ==
    /\ call[p].pc = "lmp_check_sigma"
    /\ call' = [call EXCEPT ![p].pc =
                  IF SigmaIsUnset(parameters.atomic_density_sigma)
                  THEN "lmp_write_sigma" ELSE "lmp_setup"]
    /\ UNCHANGED <<parameters, fingerprint_length, sched, user_sigma, others>>

\* lines 144-150
LmpWriteSigma(p) ==
    /\ call[p].pc = "lmp_write_sigma"
    /\ LET voxel == Voxel(call[p].atoms.cell, call[p].grid_dimensions)
       IN  /\ parameters' = [parameters EXCEPT
                               !.atomic_density_sigma = get_optimal_sigma(voxel)]
           /\ call' = [call EXCEPT ![p].pc = "lmp_setup",
                                   ![p].voxel = voxel,
                                   ![p].wrote_sigma = TRUE]
    /\ UNCHANGED <<fingerprint_length, sched, user_sigma, others>>

\* lines 153-158: the dictionary read from the parameters, the handle
LmpSetup(p) ==
    /\ call[p].pc = "lmp_setup"
    /\ call' = [call EXCEPT
                  ![p].pc = "lmp_file",
                  ![p].lammps_dict =
                      [sigma   |-> parameters.atomic_density_sigma,
                       rcutfac |-> parameters.atomic_density_cutoff],
                  ![p].lmp = "open"]
    /\ UNCHANGED <<parameters, fingerprint_length, sched, user_sigma, others>>

\* lines 162-170
LmpFile(p) ==
    /\ call[p].pc = "lmp_file"
    /\ call' = [call EXCEPT ![p].pc = "lmp_rows"]
    /\ UNCHANGED <<parameters, fingerprint_length, sched, user_sigma, others>>

\* lines 173-175
LmpExtractRows(p) ==
    /\ call[p].pc = "lmp_rows"
    /\ \E share \in 1..MaxProcs :
          call' = [call EXCEPT
                     ![p].pc = "lmp_cols",
                     ![p].nrows_ggrid =
                         EngineRows(call[p].grid_dimensions, parameters.mpi, share)]
    /\ UNCHANGED <<parameters, fingerprint_length, sched, user_sigma, others>>

\* lines 176-178
LmpExtractCols(p) ==
    /\ call[p].pc = "lmp_cols"
    /\ call' = [call EXCEPT ![p].pc = "lmp_payload",
                            ![p].ncols_ggrid = NativeColumns]
    /\ UNCHANGED <<parameters, fingerprint_length, sched, user_sigma, others>>

\* lines 180-184
LmpExtractPayload(p) ==
    /\ call[p].pc = "lmp_payload"
    /\ call' = [call EXCEPT
                  ![p].pc = "lmp_close",
                  ![p].gaussian_descriptors_np =
                      EnginePayload(call[p].nrows_ggrid, call[p].ncols_ggrid)]
    /\ UNCHANGED <<parameters, fingerprint_length, sched, user_sigma, others>>

\* lmp.file or extract_compute_np raises (lines 170-184): the exception
\* leaves __calculate_lammps, nothing catches it
LmpEngineRaises(p) ==
    /\ call[p].pc \in {"lmp_file", "lmp_rows", "lmp_cols", "lmp_payload"}
    /\ call' = [call EXCEPT ![p].pc = "raised", ![p].exc = "EngineError"]
    /\ UNCHANGED <<parameters, fingerprint_length, sched, user_sigma, others>>

\* line 185
LmpClose(p) ==
    /\ call[p].pc = "lmp_close"
    /\ call' = [call EXCEPT ![p].pc = "lmp_post", ![p].lmp = "closed"]
    /\ UNCHANGED <<parameters, fingerprint_length, sched, user_sigma, others>>

\* lines 190-222
LmpPostProcess(p) ==
    /\ call[p].pc = "lmp_post"
    /\ LET c   == call[p]
           a   == c.gaussian_descriptors_np
           gd  == c.grid_dimensions
           xyz == parameters.descriptors_contain_xyz
       IN  IF c.return_directly
           THEN /\ call' = [call EXCEPT
                              ![p].pc = "returned",
                              ![p].ret = ArrayReturn(ReturnDirectly(a, gd))]
                /\ UNCHANGED fingerprint_length
           ELSE IF parameters.mpi
           THEN /\ fingerprint_length' = MpiFeatureSize(xyz)
                /\ call' = [call EXCEPT
                              ![p].pc = "returned",
                              ![p].ret = PairReturn(a, c.nrows_ggrid)]
           ELSE IF ~CanReshape(a, <<gd[3], gd[2], gd[1], NativeColumns>>)
           THEN /\ call' = [call EXCEPT ![p].pc = "raised",
                                        ![p].exc = "ValueError"]
                /\ UNCHANGED fingerprint_length
           ELSE /\ fingerprint_length' = FullModeFeatureSize(xyz)
                /\ call' = [call EXCEPT
                              ![p].pc = "returned",
                              ![p].gaussian_descriptors_np = Reorder(a, gd),
                              ![p].ret =
                                  PairReturn(SliceLast(Reorder(a, gd),
                                                       ChannelStart(xyz)),
                                             gd[1] * gd[2] * gd[3])]
    /\ UNCHANGED <<parameters, sched, user_sigma, others>>

(***************************************************************************)
(* __calculate_python, lines 224-292.                                      *)
(***************************************************************************)
\* np.zeros((nx, ny, nz, 4)), lines 230-233; channel 3 (the density) is the
\* sequence of the kernel terms added so far
Zeros(grid_dimensions) ==
    [shape |-> <<grid_dimensions[1], grid_dimensions[2], grid_dimensions[3], 4>>,
     point |-> [idx \in {<<i, j, k>> : i \in 0..(grid_dimensions[1] - 1),
                                       j \in 0..(grid_dimensions[2] - 1),
                                       k \in 0..(grid_dimensions[3] - 1)}
                  |-> <<Q(0), Q(0), Q(0), << >> >>]]

\* lines 252-266: the coordinate of grid point ijk = <<i, j, k>>
GridCoordinate(atoms, voxel, gd, ijk) ==
    IF orthorhombic(atoms.cell)
    THEN [c \in 1..3 |-> QMul(voxel[c][c], Q(ijk[c]))]
    ELSE LET fi == Norm(ijk[1], gd[1])
             fj == Norm(ijk[2], gd[2])
             fk == Norm(ijk[3], gd[3])
             cell == atoms.cell
         IN  <<QAdd(QAdd(QMul(fi, Q(cell[1][1])), QMul(fj, Q(cell[2][1]))),
                    QMul(fk, Q(cell[3][1]))),
               QAdd(QMul(fj, Q(cell[2][2])), QMul(fk, Q(cell[2][3]))),
               QMul(fk, Q(cell[3][3]))>>

\* lines 285-287: np.sum(positions[a] - gaussian_descriptors_np[i, j, k, 0:3])
distance_squared(position, gp) ==
    QAdd(QAdd(QSub(Q(position[1]), gp[1]), QSub(Q(position[2]), gp[2])),
         QSub(Q(position[3]), gp[3]))

\* lines 284-290: the terms the atom loop adds to one grid point's density
KernelTerms(atoms, gp, cutoff_squared, prefactor, argumentfactor) ==
    LET term(a) ==
            [atom      |-> a,
             prefactor |-> prefactor,
             exponent  |-> QNeg(QMul(distance_squared(atoms.positions[a], gp),
                                     argumentfactor))]
        within(t) ==
            QLess(distance_squared(atoms.positions[t.atom], gp), cutoff_squared)
    IN  SelectSeq([a \in 1..NAtoms(atoms) |-> term(a)], within)

\* line 282: "indices_nogrid = indices()" calls a numpy array
IndicesCallable == FALSE

\* lines 245-247: the loops, k outermost and i innermost
FirstIndex(gd) ==
    IF gd[1] > 0 /\ gd[2] > 0 /\ gd[3] > 0 THEN <<0, 0, 0>> ELSE None

NextIndex(gd, ijk) ==
    IF ijk[1] + 1 < gd[1] THEN <<ijk[1] + 1, ijk[2], ijk[3]>>
    ELSE IF ijk[2] + 1 < gd[2] THEN <<0, ijk[2] + 1, ijk[3]>>
    ELSE IF ijk[3] + 1 < gd[3] THEN <<0, 0, ijk[3] + 1>>
    ELSE None

\* line 292
PythonReturn(a, grid_dimensions) == ArrayReturn(a)

\* lines 225-233
PyAlloc(p) ==
    /\ call[p].pc = "py_alloc"
    /\ call' = [call EXCEPT
                  ![p].pc = "py_check_sigma",
                  ![p].voxel = Voxel(call[p].atoms.cell, call[p].grid_dimensions),
                  ![p].gaussian_descriptors_np = Zeros(call[p].grid_dimensions)]
    /\ UNCHANGED <<parameters, fingerprint_length, sched, user_sigma, others>>

\* line 236
PyCheckSigma(p) ==
    /\ call[p].pc = "py_check_sigma"
    /\ call' = [call EXCEPT ![p].pc =
                  IF SigmaIsUnset(parameters.atomic_density_sigma)
                  THEN "py_write_sigma" ELSE "py_prefactor"]
    /\ UNCHANGED <<parameters, fingerprint_length, sched, user_sigma, others>>

\* lines 237-238
PyWriteSigma(p) ==
    /\ call[p].pc = "py_write_sigma"
    /\ parameters' = [parameters EXCEPT
                        !.atomic_density_sigma = get_optimal_sigma(call[p].voxel)]
    /\ call' = [call EXCEPT ![p].pc = "py_prefactor", ![p].wrote_sigma = TRUE]
    /\ UNCHANGED <<fingerprint_length, sched, user_sigma, others>>

\* lines 239-241: prefactor = 1 / (sigma * sqrt(2 pi))^3, kept as the sigma read
PyPrefactor(p) ==
    /\ call[p].pc = "py_prefactor"
    /\ call' = [call EXCEPT
                  ![p].pc = "py_argumentfactor_read",
                  ![p].cutoff_squared = QMul(parameters.atomic_density_cutoff,
                                             parameters.atomic_density_cutoff),
                  ![p].prefactor = [sigma |-> parameters.atomic_density_sigma]]
    /\ UNCHANGED <<parameters, fingerprint_length, sched, user_sigma, others>>

\* line 242: the first factor sigma of 2.0 * sigma * sigma
PyArgumentFactorRead(p) ==
    /\ call[p].pc = "py_argumentfactor_read"
    /\ call' = [call EXCEPT ![p].pc = "py_argumentfactor",
                            ![p].sigma_read = parameters.atomic_density_sigma]
    /\ UNCHANGED <<parameters, fingerprint_length, sched, user_sigma, others>>

\* lines 242-244: the second factor, and the loops are entered
PyArgumentFactor(p) ==
    /\ call[p].pc = "py_argumentfactor"
    /\ call' = [call EXCEPT
                  ![p].pc = "py_loop",
                  ![p].argumentfactor =
                      QDiv(Q(1), QMul(QMul(Q(2), call[p].sigma_read),
                                      parameters.atomic_density_sigma)),
                  ![p].ijk = FirstIndex(call[p].grid_dimensions)]
    /\ UNCHANGED <<parameters, fingerprint_length, sched, user_sigma, others>>

\* lines 248-290: the body of the loops for one grid point
PyGridPoint(p) ==
    /\ call[p].pc = "py_loop"
    /\ call[p].ijk # None
    /\ LET c   == call[p]
           gp  == GridCoordinate(c.atoms, c.voxel, c.grid_dimensions, c.ijk)
           a1  == [c.gaussian_descriptors_np EXCEPT
                     !.point[c.ijk] = <<gp[1], gp[2], gp[3], @[4]>>]
           a2  == [a1 EXCEPT
                     !.point[c.ijk][4] =
                         @ \o KernelTerms(c.atoms, gp, c.cutoff_squared,
                                          c.prefactor, c.argumentfactor)]
       IN  IF ~IndicesCallable
           THEN call' = [call EXCEPT ![p].pc = "raised",
                                     ![p].exc = "TypeError",
                                     ![p].gaussian_descriptors_np = a1]
           ELSE call' = [call EXCEPT
                           ![p].gaussian_descriptors_np = a2,
                           ![p].ijk = NextIndex(c.grid_dimensions, c.ijk)]
    /\ UNCHANGED <<parameters, fingerprint_length, sched, user_sigma, others>>

\* line 292
PyReturn(p) ==
    /\ call[p].pc = "py_loop"
    /\ call[p].ijk = None
    /\ call' = [call EXCEPT
                  ![p].pc = "returned",
                  ![p].ret = PythonReturn(call[p].gaussian_descriptors_np,
                                          call[p].grid_dimensions)]
    /\ UNCHANGED <<parameters, fingerprint_length, sched, user_sigma, others>>

\* the caller has the result (or the exception) of _calculate; the frame
\* of the call is gone
Leave(p) ==
    /\ Finished(p)
    /\ call' = [call EXCEPT ![p] = IdleCall]
    /\ UNCHANGED <<parameters, fingerprint_length, sched, user_sigma, others>>

Next ==
    \E p \in Threads :
        \/ Calculate(p)
        \/ Leave(p)
        \/ LmpCheckSigma(p)
        \/ LmpWriteSigma(p)
        \/ LmpSetup(p)
        \/ LmpFile(p)
        \/ LmpExtractRows(p)
        \/ LmpExtractCols(p)
        \/ LmpExtractPayload(p)
        \/ LmpEngineRaises(p)
        \/ LmpClose(p)
        \/ LmpPostProcess(p)
        \/ PyAlloc(p)
        \/ PyCheckSigma(p)
        \/ PyWriteSigma(p)
        \/ PyPrefactor(p)
        \/ PyArgumentFactorRead(p)
        \/ PyArgumentFactor(p)
        \/ PyGridPoint(p)
        \/ PyReturn(p)

\* one client thread: the calls follow one another
Spec == Init /\ [][Next]_vars

\* two client threads: their calls overlap
SpecOverlap == InitOverlap /\ [][Next]_vars

(***************************************************************************)
(* Properties.                                                             *)
(***************************************************************************)
sigma == parameters.atomic_density_sigma

OnLammpsPath(p) == parameters.lammps /\ call[p].pc # "idle"

OnPythonPath(p) == ~parameters.lammps /\ call[p].pc # "idle"

\* the sigma this call's own cell and grid would give
OwnSigma(c) == get_optimal_sigma(Voxel(c.atoms.cell, c.grid_dimensions))

\* the call has handed a sigma to the engine (lammps_dict, line 154)
HasEngineSigma(c) ==
    c.pc \in {"lmp_file", "lmp_rows", "lmp_cols", "lmp_payload", "lmp_close",
              "lmp_post"}
    \/ (c.pc \in {"returned", "raised"} /\ c.lmp # "none")

\* the call has computed the kernel's prefactor from sigma (line 241)
HasPrefactor(c) == c.prefactor # None

\* the call has computed the kernel's argument factor from sigma (line 242)
HasArgumentFactor(c) == c.argumentfactor # None

\* the native flat index of canonical index (x, y, z, c) on grid gd
NativeIndex(gd, x, y, z, c) ==
    z * gd[2] * gd[1] * NativeColumns + y * gd[1] * NativeColumns
        + x * NativeColumns + c

PositiveGrid(gd) == gd[1] > 0 /\ gd[2] > 0 /\ gd[3] > 0

PairwiseDifferent(gd) == gd[1] # gd[2] /\ gd[2] # gd[3] /\ gd[1] # gd[3]

\* the call returned from the full (single-process) mode of the accelerated
\* path
ReturnedFullMode(p) ==
    /\ parameters.lammps
    /\ ~parameters.mpi
    /\ call[p].pc = "returned"

\* C1: no call leaves __calculate_lammps, by return or by exception, with
\* the engine handle acquired and not closed.
C1_HandleClosedOnEveryExit ==
    \A p \in Threads :
        (OnLammpsPath(p) /\ Finished(p)) => call[p].lmp # "open"

\* C2: over calls that follow one another, sigma is written only while it
\* is unset, the value written is get_optimal_sigma of the writing call's
\* voxel, a sigma that is set is never changed, and every call hands the
\* stored sigma to the engine or to the kernel.
C2_SigmaWriteOnceIfUnset ==
    [][/\ sigma # None => sigma' = sigma
       /\ sigma' # sigma =>
            \E p \in Threads :
                /\ call[p].pc \in {"lmp_write_sigma", "py_write_sigma"}
                /\ call'[p].pc # call[p].pc
                /\ sigma' = OwnSigma(call[p])
       /\ \A p \in Threads :
            /\ HasEngineSigma(call'[p]) => call'[p].lammps_dict.sigma = sigma'
            /\ HasPrefactor(call'[p]) => call'[p].prefactor.sigma = sigma'
            /\ HasArgumentFactor(call'[p]) =>
                 call'[p].argumentfactor
                     = QDiv(Q(1), QMul(QMul(Q(2), sigma'), sigma'))]_vars

\* C2 witness: a call that did not write sigma uses the sigma an earlier
\* call derived, although its own voxel gives another one.
C2_Witness ==
    \E p \in Threads :
        /\ user_sigma = None
        /\ HasEngineSigma(call[p])
        /\ ~call[p].wrote_sigma
        /\ call[p].lammps_dict.sigma = sigma
        /\ OwnSigma(call[p]) # sigma

\* C3: when sigma is set before the overlapping calls start, no call
\* writes it and every call uses the value that was set.  (The race on an
\* unset sigma is the state C3_Witness describes.)
C3_PresetSigmaIsNotRaced ==
    user_sigma # None =>
        /\ sigma = user_sigma
        /\ \A p \in Threads :
             /\ ~call[p].wrote_sigma
             /\ HasEngineSigma(call[p]) => call[p].lammps_dict.sigma = user_sigma
             /\ HasPrefactor(call[p]) => call[p].prefactor.sigma = user_sigma
             /\ HasArgumentFactor(call[p]) =>
                  call[p].argumentfactor
                      = QDiv(Q(1), QMul(QMul(Q(2), user_sigma), user_sigma))

\* C3 witness: sigma was unset, both overlapping calls saw it unset and
\* wrote it, and one of them handed the engine the sigma of the other
\* call's voxel.
C3_Witness ==
    \E p \in Threads : \E q \in Threads \ {p} :
        /\ user_sigma = None
        /\ call[p].wrote_sigma
        /\ call[q].wrote_sigma
        /\ HasEngineSigma(call[p])
        /\ call[p].lammps_dict.sigma = OwnSigma(call[q])
        /\ call[p].lammps_dict.sigma # OwnSigma(call[p])

\* C4: in full mode without return_directly the reordered array has shape
\* (nx, ny, nz, 7) and its element (x, y, z, c) is the value stored at
\* native flat index z*ny*nx*7 + y*nx*7 + x*7 + c.
C4_ReorderMapsNativeIndex ==
    \A p \in Threads :
        (ReturnedFullMode(p) /\ ~call[p].return_directly) =>
            LET gd == call[p].grid_dimensions
                a  == call[p].gaussian_descriptors_np
            IN  /\ a.shape = <<gd[1], gd[2], gd[3], 7>>
                /\ \A idx \in Indices4(a.shape) :
                     Item(a, idx)
                         = Marker(NativeIndex(gd, idx[1], idx[2], idx[3], idx[4]))

\* C4 witness: such a call has returned on a grid with nx, ny, nz pairwise
\* different.
C4_Witness ==
    \E p \in Threads :
        /\ ReturnedFullMode(p)
        /\ ~call[p].return_directly
        /\ PositiveGrid(call[p].grid_dimensions)
        /\ PairwiseDifferent(call[p].grid_dimensions)
        /\ call[p].gaussian_descriptors_np.shape[1] = call[p].grid_dimensions[1]

\* C5: in full mode without return_directly the returned array holds native
\* channels 3..6 of every grid point when descriptors_contain_xyz is on and
\* native channel 6 alone when it is off, and its number of channels is the
\* feature size the call recorded.
C5_ChannelSelection ==
    \A p \in Threads :
        (ReturnedFullMode(p) /\ ~call[p].return_directly) =>
            LET gd    == call[p].grid_dimensions
                a     == call[p].ret.array
                n     == IF parameters.descriptors_contain_xyz THEN 4 ELSE 1
                first == IF parameters.descriptors_contain_xyz THEN 3 ELSE 6
            IN  /\ a.shape = <<gd[1], gd[2], gd[3], n>>
                /\ a.shape[4] = fingerprint_length
                /\ \A idx \in Indices4(a.shape) :
                     Item(a, idx)
                         = Marker(NativeIndex(gd, idx[1], idx[2], idx[3],
                                              first + idx[4]))

\* C5 witness: a density-only array (one channel) has been returned for a
\* grid with more than one point.
C5_Witness ==
    \E p \in Threads :
        /\ ReturnedFullMode(p)
        /\ ~call[p].return_directly
        /\ ~parameters.descriptors_contain_xyz
        /\ PositiveGrid(call[p].grid_dimensions)
        /\ PairwiseDifferent(call[p].grid_dimensions)
        /\ call[p].ret.array.shape[4] = 1
        /\ fingerprint_length = 1

\* C6: after a calculation that completes without return_directly, on
\* either path and in both modes of the accelerated path, the feature size
\* recorded on the instance is 4 with descriptors_contain_xyz on and 1 with
\* it off.
C6_FeatureSizeFollowsFlag ==
    \A p \in Threads :
        (call[p].pc = "returned" /\ ~call[p].return_directly) =>
            fingerprint_length
                = (IF parameters.descriptors_contain_xyz THEN 4 ELSE 1)

\* C7: every calculation that completes without return_directly returns a
\* pair (array, count); count is the engine's local row count in
\* distributed mode and nx*ny*nz otherwise, the direct path included.
C7_ReturnsArrayAndCount ==
    \A p \in Threads :
        (call[p].pc = "returned" /\ ~call[p].return_directly) =>
            LET gd == call[p].grid_dimensions
            IN  /\ call[p].ret.kind = "pair"
                /\ call[p].ret.count
                     = (IF parameters.lammps /\ parameters.mpi
                        THEN call[p].nrows_ggrid
                        ELSE gd[1] * gd[2] * gd[3])

\* C8 as claimed: in full mode with return_directly the returned array is
\* the engine buffer reshaped and transposed to (nx, ny, nz, 7), all 7
\* channels (stated for the grids with all components > 0).
C8_RawReturnIsReordered ==
    \A p \in Threads :
        (/\ ReturnedFullMode(p)
         /\ call[p].return_directly
         /\ PositiveGrid(call[p].grid_dimensions)) =>
            LET gd == call[p].grid_dimensions
                a  == call[p].ret.array
            IN  /\ a.shape = <<gd[1], gd[2], gd[3], 7>>
                /\ \A idx \in Indices4(a.shape) :
                     Item(a, idx)
                         = Marker(NativeIndex(gd, idx[1], idx[2], idx[3], idx[4]))

\* C8 as amended: in full mode with return_directly the returned value is
\* the engine buffer as it was extracted, of shape (nrows, ncols) =
\* (nx*ny*nz, 7) in native order, neither reshaped nor transposed, with all
\* 7 columns, and no count beside it.
C8_RawReturnIsEngineBuffer ==
    \A p \in Threads :
        (ReturnedFullMode(p) /\ call[p].return_directly) =>
            LET gd == call[p].grid_dimensions
                a  == call[p].ret.array
            IN  /\ call[p].ret.kind = "array"
                /\ a.shape = <<gd[1] * gd[2] * gd[3], 7>>
                /\ \A idx \in Indices2(a.shape) :
                     Item(a, idx) = Marker(idx[1] * 7 + idx[2])

\* C8 witness: a raw return for a grid with pairwise different dimensions.
C8_Witness ==
    \E p \in Threads :
        /\ ReturnedFullMode(p)
        /\ call[p].return_directly
        /\ PositiveGrid(call[p].grid_dimensions)
        /\ PairwiseDifferent(call[p].grid_dimensions)
        /\ Len(call[p].ret.array.shape) = 2

\* the squared Euclidean distance between an atom and a grid point
EuclidSquared(position, gp) ==
    LET dx == QSub(Q(position[1]), gp[1])
        dy == QSub(Q(position[2]), gp[2])
        dz == QSub(Q(position[3]), gp[3])
    IN  QAdd(QAdd(QMul(dx, dx), QMul(dy, dy)), QMul(dz, dz))

\* the atoms with a kernel term in a density
Contributors(density) == {density[n].atom : n \in 1..Len(density)}

\* C9: for a grid with all components > 0 the direct calculator does not
\* raise, and it returns an array of shape (nx, ny, nz, 4) with, at every
\* grid point, the coordinate in channels 0..2 and the density sum of the
\* atoms in range in channel 3.
C9_DirectCalculatorCompletes ==
    \A p \in Threads :
        (OnPythonPath(p) /\ PositiveGrid(call[p].grid_dimensions)) =>
            LET c  == call[p]
                gd == c.grid_dimensions
            IN  /\ c.pc # "raised"
                /\ c.pc = "returned" =>
                     /\ c.ret.array.shape = <<gd[1], gd[2], gd[3], 4>>
                     /\ \A idx \in DOMAIN c.ret.array.point :
                          LET pt == c.ret.array.point[idx]
                              gp == GridCoordinate(c.atoms, c.voxel, gd, idx)
                          IN  /\ <<pt[1], pt[2], pt[3]>> = gp
                              /\ Contributors(pt[4])
                                   = {a \in 1..NAtoms(c.atoms) :
                                        QLess(EuclidSquared(c.atoms.positions[a], gp),
                                              c.cutoff_squared)}

\* the grid points whose loop body the call has entered
Visited(c) ==
    IF c.pc = "raised" /\ c.exc = "TypeError" THEN {c.ijk}
    ELSE IF c.pc = "returned" THEN DOMAIN c.gaussian_descriptors_np.point
    ELSE {}

\* C10: in the direct calculator the quantity compared with the squared
\* cutoff is the squared Euclidean distance between atom and grid point
\* (never negative), and an atom has a kernel term in the density of a grid
\* point exactly if that distance is below the cutoff.
C10_KernelUsesEuclideanDistance ==
    \A p \in Threads :
        OnPythonPath(p) =>
            \A idx \in Visited(call[p]) :
                LET c  == call[p]
                    pt == c.gaussian_descriptors_np.point[idx]
                    gp == <<pt[1], pt[2], pt[3]>>
                IN  \A a \in 1..NAtoms(c.atoms) :
                        LET pos == c.atoms.positions[a]
                        IN  /\ distance_squared(pos, gp) = EuclidSquared(pos, gp)
                            /\ ~QLess(distance_squared(pos, gp), Q(0))
                            /\ a \in Contributors(pt[4])
                                 <=> QLess(EuclidSquared(pos, gp), c.cutoff_squared)

\* the coordinate of grid point ijk that C11 states: x from the
\* x-projections of the three cell rows, y from the y-projections of rows 1
\* and 2, z from row 2
ClaimedCoordinate(cell, gd, ijk) ==
    LET fi == Norm(ijk[1], gd[1])
        fj == Norm(ijk[2], gd[2])
        fk == Norm(ijk[3], gd[3])
    IN  <<QAdd(QAdd(QMul(fi, Q(cell[1][1])), QMul(fj, Q(cell[2][1]))),
               QMul(fk, Q(cell[3][1]))),
          QAdd(QMul(fj, Q(cell[2][2])), QMul(fk, Q(cell[3][2]))),
          QMul(fk, Q(cell[3][3]))>>

GridPoints(gd) ==
    {<<i, j, k>> : i \in 0..(gd[1] - 1), j \in 0..(gd[2] - 1), k \in 0..(gd[3] - 1)}

\* C11: for a non-orthorhombic cell the coordinate the direct calculator
\* computes for grid point (i, j, k) is x = fi*cell[0][0] + fj*cell[1][0] +
\* fk*cell[2][0], y = fj*cell[1][1] + fk*cell[2][1], z = fk*cell[2][2], for
\* every point of the grid.
C11_TriclinicCoordinate ==
    \A p \in Threads :
        (/\ OnPythonPath(p)
         /\ ~orthorhombic(call[p].atoms.cell)
         /\ PositiveGrid(call[p].grid_dimensions)) =>
            LET c  == call[p]
                gd == c.grid_dimensions
            IN  \A idx \in GridPoints(gd) :
                    GridCoordinate(c.atoms, Voxel(c.atoms.cell, gd), gd, idx)
                        = ClaimedCoordinate(c.atoms.cell, gd, idx)

\* C12: a calculation on a grid with a component <= 0 never returns an
\* array and never derives sigma from the voxel of that grid.
C12_NonPositiveGridFailsFast ==
    \A p \in Threads :
        (call[p].pc # "idle" /\ ~PositiveGrid(call[p].grid_dimensions)) =>
            /\ call[p].pc # "returned"
            /\ ~call[p].wrote_sigma

(***************************************************************************)
(* The unit functions, lines 53-101.  Both are static and pure: a call is  *)
(* one step, and unit_call keeps the last call with its outcome.           *)
(***************************************************************************)
\* longest array handed to a unit function
MaxArray == 3

\* a Python value given as unit: a string, or the object None
PyStr(s) == [type |-> "str", value |-> s]

PyNone == [type |-> "NoneType"]

UnitInputs == {PyStr("None"), PyNone, PyStr("1/A^3"), PyStr("eV"), PyStr("")}

\* one-dimensional arrays over two values
UnitArrayInputs ==
    UNION {[1..n -> {Q(0), Q(1)}] : n \in 0..MaxArray}

RaiseReturn(msg) == [kind |-> "raise", exc |-> msg]

\* lines 73-76
convert_units(array, in_units) ==
    IF in_units = PyStr("None") \/ in_units = PyNone
    THEN ArrayReturn(array)
    ELSE RaiseReturn("Unsupported unit for Gaussian descriptors.")

\* lines 98-101
backconvert_units(array, out_units) ==
    IF out_units = PyStr("None")
    THEN ArrayReturn(array)
    ELSE RaiseReturn("Unsupported unit for Gaussian descriptors.")

\* the descriptor calculator is not in use
DescriptorIdle ==
    /\ sched = "sequential"
    /\ parameters = [lammps |-> FALSE, mpi |-> FALSE,
                     descriptors_contain_xyz |-> TRUE,
                     atomic_density_sigma |-> None,
                     atomic_density_cutoff |-> Q(2)]
    /\ user_sigma = None
    /\ fingerprint_length = 0
    /\ call = [p \in Threads |-> IdleCall]

descriptor == <<parameters, fingerprint_length, call, sched, user_sigma>>

InitUnits == DescriptorIdle /\ OthersIdle

ConvertUnits ==
    /\ \E array \in UnitArrayInputs, in_units \in UnitInputs :
          unit_call' = [fn |-> "convert_units", array |-> array,
                        units |-> in_units,
                        ret |-> convert_units(array, in_units)]
    /\ UNCHANGED <<descriptor, network_params, net>>

BackconvertUnits ==
    /\ \E array \in UnitArrayInputs, out_units \in UnitInputs :
          unit_call' = [fn |-> "backconvert_units", array |-> array,
                        units |-> out_units,
                        ret |-> backconvert_units(array, out_units)]
    /\ UNCHANGED <<descriptor, network_params, net>>

NextUnits == ConvertUnits \/ BackconvertUnits

\* calls of the unit functions only
SpecUnits == InitUnits /\ [][NextUnits]_vars

\* C13: convert_units and backconvert_units return the array unchanged for
\* the unit "None" and raise the 'Unsupported unit' error for every other
\* unit argument, so both accept the same arguments.
C13_OnlyNoUnitAccepted ==
    unit_call.fn # "none" =>
        IF unit_call.units = PyStr("None")
        THEN unit_call.ret = ArrayReturn(unit_call.array)
        ELSE unit_call.ret.kind = "raise"

(***************************************************************************)
(* mala/network/network.py.  network_params is params.network, the object  *)
(* every network shares with its caller; net is the object a constructor   *)
(* call C(params) creates and the caller then uses.  A constructor call is *)
(* Python's type.__call__: C.__new__(C, params), then, if the object is an *)
(* instance of C, the __init__ of the object's class.                      *)
(*                                                                         *)
(* Left out: use_horovod, use_gpu, manual_seed, dropout, the weights, the  *)
(* values of the activations and the data a forward call returns.          *)
(***************************************************************************)
\* largest number of heads a caller asks for
MaxHeads == 5
\* the head-count loop of the model gives up at this count
HeadsCap == 8

Classes == {"Network", "FeedForwardNet", "LSTM", "GRU", "TransformerNet"}

\* lines 17, 193, 247, 351, 444: isinstance(object of class model, cls)
IsInstance(model, cls) ==
    \/ cls = "Network"
    \/ cls = model
    \/ (cls = "LSTM" /\ model = "GRU")

\* lines 71-76: the keys of activation_mappings
ActivationMappings == {"Sigmoid", "ReLU", "LeakyReLU", "Tanh"}

NnTypeInputs == {"feed-forward", "transformer", "lstm", "gru", "cnn"}

LossInputs == {"mse", "l1"}

LayerSizesInputs == {<<4, 2>>, <<6, 4, 2>>}

ActivationInputs ==
    {<< >>, <<"ReLU">>, <<"ReLU", "Sigmoid">>, <<"ReLU", "Swish">>,
     <<"ReLU", "Sigmoid", "Tanh">>}

NetworkParamsInputs ==
    [nn_type : NnTypeInputs, loss_function_type : LossInputs,
     layer_sizes : LayerSizesInputs, layer_activations : ActivationInputs,
     num_heads : 1..MaxHeads, bidirection : BOOLEAN,
     no_hidden_state : BOOLEAN, num_hidden_layers : 1..2,
     mini_batch_size : {2}]

\* batch sizes of the inputs of forward
BatchInputs == {1, 2}

\* the attribute hidden does not exist
NoHidden == [kind |-> "none"]

\* the object __new__ has created for the call cls(params); no __init__
\* has run on it
NewNet(cls, model) ==
    [pc |-> "created", cls |-> cls, model |-> model, ran |-> {},
     supplied |-> network_params.layer_activations,
     number_of_layers |-> 0, hidden |-> NoHidden, fed |-> NoHidden,
     old_num_heads |-> 0, forward |-> "none", exc |-> "none"]

\* mutant: an unknown nn_type falls back to the feed-forward network
nn_class_fallback(nn_type) ==
    CASE nn_type = "transformer" -> "TransformerNet"
      [] nn_type = "lstm" -> "LSTM"
      [] nn_type = "gru" -> "GRU"
      [] OTHER -> "FeedForwardNet"

\* lines 40-48: the class __new__ instantiates, "none" for model = None
nn_class(nn_type) ==
    CASE nn_type = "feed-forward" -> "FeedForwardNet"
      [] nn_type = "transformer" -> "TransformerNet"
      [] nn_type = "lstm" -> "LSTM"
      [] nn_type = "gru" -> "GRU"
      [] OTHER -> "none"

InitNetwork ==
    /\ DescriptorIdle
    /\ unit_call = IdleUnitCall
    /\ network_params \in NetworkParamsInputs
    /\ net = IdleNet

\* Network.__new__, lines 26-56, entered by the call cls(params); cls is
\* not used
New(cls) ==
    /\ net.pc = "idle"
    /\ LET model == nn_class(network_params.nn_type)
       IN  net' = IF model = "none"
                  THEN [NewNet(cls, model) EXCEPT
                            !.pc = "raised",
                            !.exc = "Unsupported network architecture."]
                  ELSE NewNet(cls, model)
    /\ UNCHANGED <<descriptor, unit_call, network_params>>

\* the second half of the call cls(params): __init__ runs only on an
\* instance of cls, otherwise the object is returned as __new__ made it
CallInit ==
    /\ net.pc = "created"
    /\ net' = [net EXCEPT !.pc = IF IsInstance(net.model, net.cls)
                                 THEN "network_init" ELSE "returned"]
    /\ UNCHANGED <<descriptor, unit_call, network_params>>

\* Network.__init__, lines 58-88, the first statement of every subclass
\* __init__ (lines 201, 252, 356, 454)
NetworkInit ==
    /\ net.pc = "network_init"
    /\ net' = IF network_params.loss_function_type = "mse"
              THEN [net EXCEPT
                        !.pc = "subclass_init",
                        !.number_of_layers = Len(network_params.layer_sizes) - 1,
                        !.ran = @ \cup {"Network"}]
              ELSE [net EXCEPT
                        !.pc = "raised",
                        !.number_of_layers = Len(network_params.layer_sizes) - 1,
                        !.exc = "Unsupported loss function."]
    /\ UNCHANGED <<descriptor, unit_call, network_params>>

\* list * n
Repeat(list, n) == [i \in 1..(Len(list) * n) |-> list[((i - 1) % Len(list)) + 1]]

\* mutant: a single activation is not replicated
Broadcast_never(layer_activations, number_of_layers) == layer_activations

\* lines 205-206
Broadcast(layer_activations, number_of_layers) ==
    IF Len(layer_activations) = 1
    THEN Repeat(layer_activations, number_of_layers)
    ELSE layer_activations

\* FeedForwardNet.__init__, lines 202-226
FeedForwardInit ==
    /\ net.pc = "subclass_init"
    /\ net.model = "FeedForwardNet"
    /\ LET acts == Broadcast(network_params.layer_activations,
                             net.number_of_layers)
           exc  == IF Len(acts) < net.number_of_layers
                   THEN "Not enough activation layers provided."
                   ELSE IF Len(acts) > net.number_of_layers
                   THEN "Too many activation layers provided."
                   ELSE IF \E i \in 1..net.number_of_layers :
                               acts[i] \notin ActivationMappings
                   THEN "Invalid activation type seleceted."
                   ELSE "none"
       IN  /\ network_params' = [network_params EXCEPT
                                     !.layer_activations = acts]
           /\ net' = IF exc = "none"
                     THEN [net EXCEPT !.pc = "returned",
                                      !.ran = @ \cup {"FeedForwardNet"}]
                     ELSE [net EXCEPT !.pc = "raised", !.exc = exc]
    /\ UNCHANGED <<descriptor, unit_call>>

\* a torch tensor: its shape, and whether all its entries are zero
Tensor(shape, zero) == [shape |-> shape, zero |-> zero]

\* lines 253, 357
hidden_dim == network_params.layer_sizes[Len(network_params.layer_sizes)]

\* lines 332-345 and 432-439: the shape of h0 (and c0) for the given batch
\* size
HiddenShape(batch) ==
    IF network_params.bidirection
    THEN <<network_params.num_hidden_layers * 2, batch, hidden_dim \div 2>>
    ELSE <<network_params.num_hidden_layers, batch, hidden_dim>>

\* LSTM.init_hidden, lines 323-349
LSTM_init_hidden ==
    [kind |-> "pair",
     h |-> Tensor(HiddenShape(network_params.mini_batch_size), TRUE),
     c |-> Tensor(HiddenShape(network_params.mini_batch_size), TRUE)]

\* GRU.init_hidden, lines 423-442
GRU_init_hidden ==
    [kind |-> "tensor",
     h |-> Tensor(HiddenShape(network_params.mini_batch_size), TRUE)]

\* lines 278 and 378: activation_mappings[layer_activations[0]]()
FirstActivationError ==
    IF network_params.layer_activations = << >> THEN "IndexError"
    ELSE IF network_params.layer_activations[1] \notin ActivationMappings
    THEN "KeyError"
    ELSE "none"

\* the object after the rest of an LSTM or GRU __init__ (lines 253-279,
\* 357-380): hidden is set first, the activation is looked up last
AfterRecurrentInit(class, hidden) ==
    IF FirstActivationError = "none"
    THEN [net EXCEPT !.pc = "returned", !.hidden = hidden,
                     !.ran = @ \cup {class}]
    ELSE [net EXCEPT !.pc = "raised", !.hidden = hidden,
                     !.exc = FirstActivationError]

\* LSTM.__init__, lines 253-279
LSTMInit ==
    /\ net.pc = "subclass_init"
    /\ net.model = "LSTM"
    /\ net' = AfterRecurrentInit("LSTM", LSTM_init_hidden)
    /\ UNCHANGED <<descriptor, unit_call, network_params>>

\* GRU.__init__, lines 357-380
GRUInit ==
    /\ net.pc = "subclass_init"
    /\ net.model = "GRU"
    /\ net' = AfterRecurrentInit("GRU", GRU_init_hidden)
    /\ UNCHANGED <<descriptor, unit_call, network_params>>

\* tensor.fill_(0.0)
Fill0(t) == Tensor(t.shape, TRUE)

\* tensor[0]: the first entry along the first dimension
Index0(t) == Tensor(Tail(t.shape), t.zero)

\* the recurrent layer accepts a hidden tensor only of the shape that goes
\* with its input (lines 306-315, 406-415)
LayerAccepts(t, batch) == t.shape = HiddenShape(batch)

\* forward on an object whose __init__ has not run: self.params is missing
ForwardUninitialized ==
    net' = [net EXCEPT !.forward = "raised", !.exc = "AttributeError"]

\* LSTM.forward, lines 282-320, on an input of batch rows
LSTMForward(batch) ==
    /\ net.pc = "returned"
    /\ net.model = "LSTM"
    /\ IF "LSTM" \notin net.ran
       THEN ForwardUninitialized
       ELSE LET hidden == IF network_params.no_hidden_state
                          THEN [kind |-> "pair", h |-> Fill0(net.hidden.h),
                                c |-> Fill0(net.hidden.c)]
                          ELSE net.hidden
            IN  net' = IF LayerAccepts(hidden.h, batch)
                          /\ LayerAccepts(hidden.c, batch)
                       THEN [net EXCEPT
                                 !.fed = hidden,
                                 !.hidden =
                                     [kind |-> "pair",
                                      h |-> Tensor(HiddenShape(batch), FALSE),
                                      c |-> Tensor(HiddenShape(batch), FALSE)],
                                 !.forward = "returned", !.exc = "none"]
                       ELSE [net EXCEPT !.fed = hidden, !.hidden = hidden,
                                        !.forward = "raised",
                                        !.exc = "RuntimeError"]
    /\ UNCHANGED <<descriptor, unit_call, network_params>>

\* GRU.forward, lines 382-420, on an input of batch rows
GRUForward(batch) ==
    /\ net.pc = "returned"
    /\ net.model = "GRU"
    /\ IF "GRU" \notin net.ran
       THEN ForwardUninitialized
       ELSE IF network_params.no_hidden_state /\ net.hidden.h.shape = << >>
       THEN net' = [net EXCEPT !.forward = "raised", !.exc = "IndexError"]
       ELSE LET hidden == IF network_params.no_hidden_state
                          THEN [kind |-> "tensor",
                                h |-> Fill0(Index0(net.hidden.h))]
                          ELSE net.hidden
            IN  net' = IF LayerAccepts(hidden.h, batch)
                       THEN [net EXCEPT
                                 !.fed = hidden,
                                 !.hidden =
                                     [kind |-> "tensor",
                                      h |-> Tensor(HiddenShape(batch), FALSE)],
                                 !.forward = "returned", !.exc = "none"]
                       ELSE [net EXCEPT !.fed = hidden, !.hidden = hidden,
                                        !.forward = "raised",
                                        !.exc = "RuntimeError"]
    /\ UNCHANGED <<descriptor, unit_call, network_params>>

\* lines 457 and 459: layer_sizes[0] % num_heads != 0
HeadsDoNotDivide ==
    network_params.layer_sizes[1] % network_params.num_heads # 0

\* TransformerNet.__init__, lines 455-458 without a loop, lines 461-476
TransformerInit ==
    /\ net.pc = "subclass_init"
    /\ net.model = "TransformerNet"
    /\ net' = IF HeadsDoNotDivide
              THEN [net EXCEPT !.pc = "heads_loop",
                               !.old_num_heads = network_params.num_heads]
              ELSE [net EXCEPT !.pc = "returned",
                               !.ran = @ \cup {"TransformerNet"}]
    /\ UNCHANGED <<descriptor, unit_call, network_params>>

\* lines 459-460: one turn of the loop
HeadsStep ==
    /\ net.pc = "heads_loop"
    /\ HeadsDoNotDivide
    /\ network_params.num_heads < HeadsCap
    /\ network_params' = [network_params EXCEPT !.num_heads = @ + 1]
    /\ UNCHANGED <<descriptor, unit_call, net>>

\* line 459 with the condition false, then lines 461-476
HeadsDone ==
    /\ net.pc = "heads_loop"
    /\ ~HeadsDoNotDivide
    /\ net' = [net EXCEPT !.pc = "returned",
                          !.ran = @ \cup {"TransformerNet"}]
    /\ UNCHANGED <<descriptor, unit_call, network_params>>

\* the caller drops the object, or has caught the exception
Discard ==
    /\ net.pc \in {"returned", "raised"}
    /\ net' = IdleNet
    /\ UNCHANGED <<descriptor, unit_call, network_params>>

NextNetwork ==
    \/ \E cls \in Classes : New(cls)
    \/ CallInit
    \/ NetworkInit
    \/ FeedForwardInit
    \/ LSTMInit
    \/ GRUInit
    \/ TransformerInit
    \/ HeadsStep
    \/ HeadsDone
    \/ \E batch \in BatchInputs : LSTMForward(batch)
    \/ \E batch \in BatchInputs : GRUForward(batch)
    \/ Discard

\* constructor calls and forward calls on one shared parameters object
SpecNetwork == InitNetwork /\ [][NextNetwork]_vars

(***************************************************************************)
(* Properties of the network classes.                                      *)
(***************************************************************************)
SupportedNnTypes == {"feed-forward", "transformer", "lstm", "gru"}

\* C14: Network(params) builds FeedForwardNet for 'feed-forward',
\* TransformerNet for 'transformer', LSTM for 'lstm' and GRU for 'gru'; any
\* other nn_type raises 'Unsupported network architecture.' and any loss
\* other than 'mse' raises 'Unsupported loss function.'; in neither case is
\* an object returned or a subclass initialised.
C14_NetworkDispatch ==
    (net.pc # "idle" /\ net.cls = "Network") =>
        LET nn_type == network_params.nn_type
            loss    == network_params.loss_function_type
        IN  /\ nn_type \notin SupportedNnTypes =>
                   /\ net.pc = "raised"
                   /\ net.exc = "Unsupported network architecture."
                   /\ net.model = "none"
            /\ nn_type = "feed-forward" => net.model = "FeedForwardNet"
            /\ nn_type = "transformer" => net.model = "TransformerNet"
            /\ nn_type = "lstm" => net.model = "LSTM"
            /\ nn_type = "gru" => net.model = "GRU"
            /\ (nn_type \in SupportedNnTypes /\ loss # "mse") =>
                   /\ net.pc \in {"created", "network_init", "raised"}
                   /\ net.pc = "raised" => net.exc = "Unsupported loss function."
            /\ net.pc = "returned" => net.model \in net.ran

\* Network(params) with an unknown nn_type has raised
C14_Witness ==
    /\ net.pc = "raised"
    /\ net.cls = "Network"
    /\ network_params.nn_type = "cnn"
    /\ net.exc = "Unsupported network architecture."

\* C15: a call C(params) of a subclass C that returns, returns an instance
\* of C on which the __init__ of its class has run.
C15_SubclassCallReturnsInitialized ==
    (net.pc = "returned" /\ net.cls # "Network") =>
        /\ IsInstance(net.model, net.cls)
        /\ net.model \in net.ran

\* FeedForwardNet.__init__ has got past Network.__init__ and has ended
FeedForwardInitEnded ==
    /\ net.pc \in {"returned", "raised"}
    /\ net.model = "FeedForwardNet"
    /\ "Network" \in net.ran

LengthErrors ==
    {"Not enough activation layers provided.",
     "Too many activation layers provided."}

\* C16: when the supplied activation list is shorter (longer) than the
\* number of layers, FeedForwardNet construction raises 'Not enough' ('Too
\* many') and the shared list is the one the caller supplied.
C16_LengthMismatchRaises ==
    (FeedForwardInitEnded /\ Len(net.supplied) # net.number_of_layers) =>
        /\ net.pc = "raised"
        /\ net.exc = IF Len(net.supplied) < net.number_of_layers
                     THEN "Not enough activation layers provided."
                     ELSE "Too many activation layers provided."
        /\ network_params.layer_activations = net.supplied

\* C16 (amended): a supplied list of one activation is replicated in the
\* shared parameters to number_of_layers entries and no length error is
\* raised; any other list is left as supplied, and raises 'Not enough'
\* when shorter and 'Too many' when longer than the number of layers.
C16_LengthMismatchRaisesUnlessSingle ==
    FeedForwardInitEnded =>
        IF Len(net.supplied) = 1
        THEN /\ network_params.layer_activations =
                    [i \in 1..net.number_of_layers |-> net.supplied[1]]
             /\ net.exc \notin LengthErrors
        ELSE /\ network_params.layer_activations = net.supplied
             /\ Len(net.supplied) < net.number_of_layers =>
                    (net.pc = "raised"
                     /\ net.exc = "Not enough activation layers provided.")
             /\ Len(net.supplied) > net.number_of_layers =>
                    (net.pc = "raised"
                     /\ net.exc = "Too many activation layers provided.")
             /\ Len(net.supplied) = net.number_of_layers =>
                    net.exc \notin LengthErrors

\* one supplied activation, two layers: constructed, with two activations
C16_Witness ==
    /\ FeedForwardInitEnded
    /\ net.pc = "returned"
    /\ Len(net.supplied) = 1
    /\ net.number_of_layers = 2
    /\ Len(network_params.layer_activations) = 2

\* C17: the hidden state of an initialised LSTM is a pair (h, c) and that
\* of a GRU a single tensor h, each of the shape init_hidden gave it; with
\* no_hidden_state the hidden state fed to the recurrent layer is all zeros
\* of that shape.
C17_HiddenStateStructure ==
    (net.pc = "returned" /\ net.model \in {"LSTM", "GRU"}
         /\ net.model \in net.ran) =>
        LET shape == HiddenShape(network_params.mini_batch_size)
            Kept(hidden) ==
                IF net.model = "LSTM"
                THEN /\ hidden.kind = "pair"
                     /\ hidden.h.shape = shape
                     /\ hidden.c.shape = shape
                ELSE /\ hidden.kind = "tensor"
                     /\ hidden.h.shape = shape
        IN  /\ Kept(net.hidden)
            /\ (network_params.no_hidden_state /\ net.fed.kind # "none") =>
                   /\ Kept(net.fed)
                   /\ net.fed.h.zero
                   /\ net.model = "LSTM" => net.fed.c.zero

\* C18: the head-count loop ends: while it runs, some count from num_heads
\* up divides layer_sizes[0]; and after it num_heads is the smallest count
\* from the initial one up that divides layer_sizes[0].
C18_HeadsLoopTerminates ==
    LET size == network_params.layer_sizes[1]
        num_heads == network_params.num_heads
    IN  /\ net.pc = "heads_loop" =>
               \E d \in num_heads..size : size % d = 0
        /\ (net.pc = "returned" /\ net.model = "TransformerNet"
                /\ net.old_num_heads > 0) =>
               /\ size % num_heads = 0
               /\ num_heads >= net.old_num_heads
               /\ \A d \in net.old_num_heads..(num_heads - 1) : size % d # 0

====
